---- MODULE Spec2Model ----
(***************************************************************************)
(* Model of the gxr ping scanner: target expansion (src/src/utils.rs) and  *)
(* the bounded-concurrency probing engine (src/src/commands/net/ping.rs).  *)
(*                                                                         *)
(* A Rust String is a sequence of one-character strings.  A u32 is a pair  *)
(* <<hi, lo>> of 16-bit halves, so that all arithmetic keeps its 32-bit    *)
(* width.                                                                  *)
(***************************************************************************)
EXTENDS Integers, Sequences, FiniteSets, TLC

VARIABLES
    build,       \* the binary: [overflow_checks, windows : BOOLEAN]
    args,        \* PingArgs: [target, count, concurrency]
    run_pc,      \* position of run / ping_concurrent_async
    run_ret,     \* what run returned, or NotReturned
    ip_list,     \* the AddressList handed to ping_concurrent_async
    next_ip,     \* index of the next address of the for loop over ip_list
    permits,     \* permits available in the semaphore
    tasks,       \* the spawned probe tasks, by index of their address
    results,     \* the shared Vec<PingResult>
    lock,        \* the task holding the results mutex, 0 when free
    ticks,       \* position of the progress bar
    joined,      \* number of join handles awaited so far
    summary,     \* the scan statistics run has printed, or NoSummary
    exit_code,   \* exit status of the process, or StillRunning
    probe,       \* an isolated ping_ip_async call, or Idle
    cidr_in,     \* argument of an isolated parse_cidr call, or Idle
    cidr_out,    \* its outcome, or NotCalled
    fn_in,       \* argument of an isolated call of another pure function
    fn_out       \* its outcome, or NotCalled

runVars == <<args, run_pc, run_ret, ip_list, next_ip, permits, tasks, results,
             lock, ticks, joined, summary, exit_code>>

cidrVars == <<cidr_in, cidr_out>>

pureVars == <<cidrVars, fn_in, fn_out>>

vars == <<build, runVars, probe, pureVars>>

----------------------------------------------------------------------------
(* Strings *)

Digits == <<"0", "1", "2", "3", "4", "5", "6", "7", "8", "9">>

IsDigit(c) == \E d \in 1..10 : Digits[d] = c

DigitVal(c) == (CHOOSE d \in 1..10 : Digits[d] = c) - 1

Contains(s, c) == \E i \in 1..Len(s) : s[i] = c

\* str::trim: strip leading and trailing white space
RECURSIVE TrimStart(_)
TrimStart(s) == IF s # <<>> /\ Head(s) = " " THEN TrimStart(Tail(s)) ELSE s

RECURSIVE TrimEnd(_)
TrimEnd(s) ==
    IF s # <<>> /\ s[Len(s)] = " " THEN TrimEnd(SubSeq(s, 1, Len(s) - 1)) ELSE s

Trim(s) == TrimEnd(TrimStart(s))

\* str::split(sep).collect(): the pieces between separators, empty ones kept
RECURSIVE Split(_, _)
Split(s, sep) ==
    IF ~Contains(s, sep) THEN <<s>>
    ELSE LET i == CHOOSE k \in 1..Len(s) :
                       s[k] = sep /\ \A j \in 1..(k - 1) : s[j] # sep
         IN  <<SubSeq(s, 1, i - 1)>> \o Split(SubSeq(s, i + 1, Len(s)), sep)

\* str::rfind(c): the position of the last c, 0 when there is none
RFind(s, c) ==
    IF ~Contains(s, c) THEN 0
    ELSE CHOOSE k \in 1..Len(s) : s[k] = c /\ \A j \in (k + 1)..Len(s) : s[j] # c

\* value of a digit string, saturating at cap + 1 so that no intermediate
\* value leaves the range the parsers accept
RECURSIVE DecimalValue(_, _, _)
DecimalValue(s, acc, cap) ==
    IF s = <<>> THEN acc
    ELSE LET v == acc * 10 + DigitVal(Head(s))
         IN  DecimalValue(Tail(s), IF v > cap THEN cap + 1 ELSE v, cap)

\* u32/u8 Display: decimal digits without leading zeros
RECURSIVE NatToStr(_)
NatToStr(n) ==
    IF n < 10 THEN <<Digits[n + 1]>>
    ELSE NatToStr(n \div 10) \o <<Digits[(n % 10) + 1]>>

\* "...".parse::<u8>(): optional '+', then one or more digits, value <= 255
ParseU8(s) ==
    LET body == IF s # <<>> /\ Head(s) = "+" THEN Tail(s) ELSE s
    IN  IF body = <<>> \/ \E i \in 1..Len(body) : ~IsDigit(body[i])
        THEN [ok |-> FALSE]
        ELSE LET v == DecimalValue(body, 0, 255)
             IN  IF v > 255 THEN [ok |-> FALSE] ELSE [ok |-> TRUE, val |-> v]

\* one octet of a dotted quad: 1 to 3 digits, no leading zero, value <= 255
OctetOk(p) ==
    /\ Len(p) \in 1..3
    /\ \A i \in 1..Len(p) : IsDigit(p[i])
    /\ (Len(p) > 1 => p[1] # "0")
    /\ DecimalValue(p, 0, 255) <= 255

\* Ipv4Addr::from_str
Ipv4FromStr(s) ==
    LET parts == Split(s, ".")
    IN  IF Len(parts) = 4 /\ \A i \in 1..4 : OctetOk(parts[i])
        THEN [ok |-> TRUE,
              octets |-> [i \in 1..4 |-> DecimalValue(parts[i], 0, 255)]]
        ELSE [ok |-> FALSE]

\* Ipv4Addr::to_string
Ipv4ToString(o) ==
    NatToStr(o[1]) \o <<".">> \o NatToStr(o[2]) \o <<".">> \o
    NatToStr(o[3]) \o <<".">> \o NatToStr(o[4])

----------------------------------------------------------------------------
(* 32-bit unsigned integers as <<hi, lo>> halves *)

Half == 2^16

U32Max == <<Half - 1, Half - 1>>

U32Zero == <<0, 0>>

\* u32::from(Ipv4Addr): big-endian
U32FromIp(o) == <<o[1] * 256 + o[2], o[3] * 256 + o[4]>>

\* Ipv4Addr::from(u32)
IpFromU32(x) == <<x[1] \div 256, x[1] % 256, x[2] \div 256, x[2] % 256>>

RECURSIVE BitAnd(_, _)
BitAnd(a, b) ==
    IF a = 0 \/ b = 0 THEN 0
    ELSE (a % 2) * (b % 2) + 2 * BitAnd(a \div 2, b \div 2)

U32And(x, y) == <<BitAnd(x[1], y[1]), BitAnd(x[2], y[2])>>

U32Not(x) == <<Half - 1 - x[1], Half - 1 - x[2]>>

\* a | b == !(!a & !b)
U32Or(x, y) == U32Not(U32And(U32Not(x), U32Not(y)))

\* x << n for 0 <= n < 32, bits shifted out are lost
RECURSIVE U32Shl(_, _)
U32Shl(x, n) ==
    IF n = 0 THEN x
    ELSE U32Shl(<<(x[1] * 2 + (x[2] * 2) \div Half) % Half, (x[2] * 2) % Half>>,
                n - 1)

U32Lt(x, y) == x[1] < y[1] \/ (x[1] = y[1] /\ x[2] < y[2])

U32Ge(x, y) == ~U32Lt(x, y)

\* x + 1 and x - 1 modulo 2^32
U32Inc(x) ==
    IF x[2] < Half - 1 THEN <<x[1], x[2] + 1>> ELSE <<(x[1] + 1) % Half, 0>>

U32Dec(x) ==
    IF x[2] > 0 THEN <<x[1], x[2] - 1>> ELSE <<(x[1] + Half - 1) % Half, Half - 1>>

----------------------------------------------------------------------------
(* Results: Ok(list), Err(message kind), or a panic of the calling thread *)

Ok(v) == [kind |-> "Ok", val |-> v]

Err(e) == [kind |-> "Err", err |-> e]

Panic == [kind |-> "Panic"]

----------------------------------------------------------------------------
(* utils.rs: target expansion *)

\* the while loop of parse_cidr: every address from current up to, not
\* including, broadcast
RECURSIVE CidrLoop(_, _, _)
CidrLoop(current_int, broadcast_int, ips) ==
    IF U32Lt(current_int, broadcast_int)
    THEN CidrLoop(U32Inc(current_int), broadcast_int,
                  Append(ips, Ipv4ToString(IpFromU32(current_int))))
    ELSE ips

\* a network address that keeps the host bits of the given address
NetworkKeepHostBits(ip_int, mask) == ip_int

\* the network address: ip & mask
NetworkInt(ip_int, mask) == U32And(ip_int, mask)

\* the subnet mask of a prefix length
CidrMask(prefix_len) ==
    IF prefix_len = 0 THEN U32Zero ELSE U32Shl(U32Max, 32 - prefix_len)

\* parse_cidr; overflow_checks tells whether the build panics on an integer
\* overflow (debug profile) or wraps (release profile)
parse_cidr(cidr, overflow_checks) ==
    LET parts == Split(cidr, "/")
    IN  IF Len(parts) # 2 THEN Err("InvalidCidrFormat")
        ELSE
        LET ip         == Ipv4FromStr(parts[1])
            prefix_len == ParseU8(parts[2])
        IN  IF ~ip.ok THEN Err("InvalidCidrAddress")
            ELSE IF ~prefix_len.ok THEN Err("InvalidPrefixLength")
            ELSE IF prefix_len.val > 32 THEN Err("PrefixTooLong")
            ELSE
            LET ip_int        == U32FromIp(ip.octets)
                mask          == CidrMask(prefix_len.val)
                network_int   == NetworkInt(ip_int, mask)
                broadcast_int == U32Or(network_int, U32Not(mask))
            IN  IF overflow_checks /\ network_int = U32Max THEN Panic
                ELSE IF overflow_checks /\ broadcast_int = U32Zero THEN Panic
                ELSE IF U32Ge(network_int, U32Dec(broadcast_int))
                     THEN Err("NoUsableHosts")
                ELSE Ok(CidrLoop(U32Inc(network_int), broadcast_int, <<>>))

\* the for loop of parse_ip_range: base with its last octet i..end_last
RECURSIVE RangeLoop(_, _, _, _)
RangeLoop(base_parts, i, end_last, ips) ==
    IF i <= end_last
    THEN RangeLoop(base_parts, i + 1, end_last,
                   Append(ips, Ipv4ToString(<<base_parts[1], base_parts[2],
                                              base_parts[3], i>>)))
    ELSE ips

\* a descending range taken for an empty one
parse_ip_range_unordered(range_str) ==
    LET dash_pos == RFind(range_str, "-")
    IN  IF dash_pos = 0 THEN Err("InvalidRangeFormat")
        ELSE
        LET base     == SubSeq(range_str, 1, dash_pos - 1)
            end_part == Trim(SubSeq(range_str, dash_pos + 1, Len(range_str)))
            base_ip  == Ipv4FromStr(Trim(base))
            end_last == ParseU8(end_part)
        IN  IF ~base_ip.ok THEN Err("InvalidRangeStart")
            ELSE IF ~end_last.ok THEN Err("InvalidRangeEnd")
            ELSE Ok(RangeLoop(base_ip.octets, base_ip.octets[4],
                              end_last.val, <<>>))

\* a range that stops one short of its end octet
parse_ip_range_exclusive(range_str) ==
    LET dash_pos == RFind(range_str, "-")
    IN  IF dash_pos = 0 THEN Err("InvalidRangeFormat")
        ELSE
        LET base     == SubSeq(range_str, 1, dash_pos - 1)
            end_part == Trim(SubSeq(range_str, dash_pos + 1, Len(range_str)))
            base_ip  == Ipv4FromStr(Trim(base))
            end_last == ParseU8(end_part)
        IN  IF ~base_ip.ok THEN Err("InvalidRangeStart")
            ELSE IF ~end_last.ok THEN Err("InvalidRangeEnd")
            ELSE IF end_last.val < base_ip.octets[4] THEN Err("InvalidRange")
            ELSE Ok(RangeLoop(base_ip.octets, base_ip.octets[4],
                              end_last.val - 1, <<>>))

parse_ip_range(range_str) ==
    LET dash_pos == RFind(range_str, "-")
    IN  IF dash_pos = 0 THEN Err("InvalidRangeFormat")
        ELSE
        LET base     == SubSeq(range_str, 1, dash_pos - 1)
            end_part == Trim(SubSeq(range_str, dash_pos + 1, Len(range_str)))
            base_ip  == Ipv4FromStr(Trim(base))
            end_last == ParseU8(end_part)
        IN  IF ~base_ip.ok THEN Err("InvalidRangeStart")
            ELSE IF ~end_last.ok THEN Err("InvalidRangeEnd")
            ELSE IF end_last.val < base_ip.octets[4] THEN Err("InvalidRange")
            ELSE Ok(RangeLoop(base_ip.octets, base_ip.octets[4],
                              end_last.val, <<>>))

\* one trimmed, non-empty segment of the target string
ParseSegment(target, overflow_checks) ==
    IF Contains(target, "/") THEN parse_cidr(target, overflow_checks)
    ELSE IF Contains(target, "-") THEN parse_ip_range(target)
    ELSE IF Ipv4FromStr(target).ok THEN Ok(<<target>>)
    ELSE Err("InvalidAddress")

\* the for loop of parse_targets over the comma-separated pieces
RECURSIVE TargetsLoop(_, _, _)
TargetsLoop(pieces, all_ips, overflow_checks) ==
    IF pieces = <<>> THEN Ok(all_ips)
    ELSE LET target == Trim(Head(pieces))
         IN  IF target = <<>>
             THEN TargetsLoop(Tail(pieces), all_ips, overflow_checks)
             ELSE LET r == ParseSegment(target, overflow_checks)
                  IN  IF r.kind = "Ok"
                      THEN TargetsLoop(Tail(pieces), all_ips \o r.val,
                                       overflow_checks)
                      ELSE r

\* the empty address list returned as it is
parse_targets_unchecked(targets, overflow_checks) ==
    TargetsLoop(Split(targets, ","), <<>>, overflow_checks)

\* the pieces taken from right to left
parse_targets_reversed(targets, overflow_checks) ==
    LET pieces == Split(targets, ",")
        r == TargetsLoop([k \in 1..Len(pieces) |-> pieces[Len(pieces) + 1 - k]],
                         <<>>, overflow_checks)
    IN  IF r.kind = "Ok" /\ r.val = <<>> THEN Err("EmptyTargetSet") ELSE r

parse_targets(targets, overflow_checks) ==
    LET r == TargetsLoop(Split(targets, ","), <<>>, overflow_checks)
    IN  IF r.kind = "Ok" /\ r.val = <<>> THEN Err("EmptyTargetSet") ELSE r

\* "...".parse::<u16>(): optional '+', then one or more digits, value <= 65535
ParseU16(s) ==
    LET body == IF s # <<>> /\ Head(s) = "+" THEN Tail(s) ELSE s
    IN  IF body = <<>> \/ \E i \in 1..Len(body) : ~IsDigit(body[i])
        THEN [ok |-> FALSE]
        ELSE LET v == DecimalValue(body, 0, 65535)
             IN  IF v > 65535 THEN [ok |-> FALSE] ELSE [ok |-> TRUE, val |-> v]

\* one part of parse_ports that holds a '-': split_once('-'), both sides
\* trimmed and parsed, the ports start..=end when start <= end
PortRangePart(part) ==
    LET dash  == CHOOSE k \in 1..Len(part) :
                     part[k] = "-" /\ \A j \in 1..(k - 1) : part[j] # "-"
        start == ParseU16(Trim(SubSeq(part, 1, dash - 1)))
        end   == ParseU16(Trim(SubSeq(part, dash + 1, Len(part))))
    IN  IF start.ok /\ end.ok /\ start.val <= end.val
        THEN [k \in 1..(end.val - start.val + 1) |-> start.val + k - 1]
        ELSE <<>>

\* the for loop of parse_ports over the comma-separated parts
RECURSIVE PortsLoop(_, _)
PortsLoop(pieces, ports) ==
    IF pieces = <<>> THEN ports
    ELSE LET part == Trim(Head(pieces))
         IN  IF part = <<>> THEN PortsLoop(Tail(pieces), ports)
             ELSE IF Contains(part, "-")
             THEN PortsLoop(Tail(pieces), ports \o PortRangePart(part))
             ELSE IF ParseU16(part).ok
             THEN PortsLoop(Tail(pieces), Append(ports, ParseU16(part).val))
             ELSE PortsLoop(Tail(pieces), ports)

\* ports.sort_unstable()
RECURSIVE SortUnstable(_)
SortUnstable(ports) ==
    IF ports = <<>> THEN <<>>
    ELSE LET m    == CHOOSE k \in 1..Len(ports) :
                         \A j \in 1..Len(ports) : ports[k] <= ports[j]
             rest == [k \in 1..(Len(ports) - 1) |->
                         IF k < m THEN ports[k] ELSE ports[k + 1]]
         IN  <<ports[m]>> \o SortUnstable(rest)

\* ports.dedup(): of consecutive equal elements the first is kept
RECURSIVE Dedup(_)
Dedup(ports) ==
    IF Len(ports) <= 1 THEN ports
    ELSE IF ports[1] = ports[2] THEN Dedup(Tail(ports))
    ELSE <<ports[1]>> \o Dedup(Tail(ports))

\* a parse_ports that leaves the repeated ports in
parse_ports_repeating(port_str) ==
    SortUnstable(PortsLoop(Split(port_str, ","), <<>>))

parse_ports(port_str) ==
    Dedup(SortUnstable(PortsLoop(Split(port_str, ","), <<>>)))

----------------------------------------------------------------------------
(* ping.rs: classification of one invocation's output *)

\* Non-ASCII characters are written as their code points.
Upper == <<"A", "B", "C", "D", "E", "F", "G", "H", "I", "J", "K", "L", "M",
           "N", "O", "P", "Q", "R", "S", "T", "U", "V", "W", "X", "Y", "Z">>

Lower == <<"a", "b", "c", "d", "e", "f", "g", "h", "i", "j", "k", "l", "m",
           "n", "o", "p", "q", "r", "s", "t", "u", "v", "w", "x", "y", "z">>

\* str::to_lowercase
ToLowercase(s) ==
    [i \in 1..Len(s) |->
        IF \E k \in 1..26 : Upper[k] = s[i]
        THEN Lower[CHOOSE k \in 1..26 : Upper[k] = s[i]]
        ELSE s[i]]

MatchAt(s, pat, i) ==
    /\ i + Len(pat) - 1 <= Len(s)
    /\ \A j \in 1..Len(pat) : s[i + j - 1] = pat[j]

\* str::find(pattern): the position of the first occurrence, 0 when none
Find(s, pat) ==
    IF \E i \in 1..Len(s) : MatchAt(s, pat, i)
    THEN CHOOSE i \in 1..Len(s) :
             MatchAt(s, pat, i) /\ \A j \in 1..(i - 1) : ~MatchAt(s, pat, j)
    ELSE 0

IsNumChar(c) == IsDigit(c) \/ c = "." \/ c = "-"

\* chars().take_while(...)
RECURSIVE TakeWhileNum(_)
TakeWhileNum(s) ==
    IF s # <<>> /\ IsNumChar(Head(s)) THEN <<Head(s)>> \o TakeWhileNum(Tail(s))
    ELSE <<>>

RECURSIVE StripTrailingZeros(_)
StripTrailingZeros(s) ==
    IF s # <<>> /\ s[Len(s)] = "0"
    THEN StripTrailingZeros(SubSeq(s, 1, Len(s) - 1)) ELSE s

MaxIntPart == 999999

\* "...".parse::<f64>() of a string of digits, '.' and '-': an optional
\* leading '-', at most one '.', at least one digit.  The value is kept
\* exactly: sign, integer part, fraction digits without trailing zeros.
ParseF64(s) ==
    LET neg  == s # <<>> /\ Head(s) = "-"
        body == IF neg THEN Tail(s) ELSE s
        dot  == Find(body, <<".">>)
        ip   == IF dot = 0 THEN body ELSE SubSeq(body, 1, dot - 1)
        fp   == IF dot = 0 THEN <<>> ELSE SubSeq(body, dot + 1, Len(body))
    IN  IF \/ \E i \in 1..Len(ip) : ~IsDigit(ip[i])
           \/ \E i \in 1..Len(fp) : ~IsDigit(fp[i])
           \/ (ip = <<>> /\ fp = <<>>)
        THEN [ok |-> FALSE]
        ELSE [ok |-> TRUE, neg |-> neg,
              int |-> DecimalValue(ip, 0, MaxIntPart),
              frac |-> StripTrailingZeros(fp)]

\* time >= 0.0 (true of -0.0)
F64NonNegative(t) == ~t.neg \/ (t.int = 0 /\ t.frac = <<>>)

None == [some |-> FALSE]

Some(v) == [some |-> TRUE, val |-> v]

time_markers ==
    << <<"t", "i", "m", "e", "=">>,
       <<"U+65F6", "U+95F4", "=">>,
       <<"l", "a", "t", "e", "n", "c", "y", "=">> >>

\* the for loop over time_markers: the position just after the first marker,
\* in the order of the marker list, that the text contains; 0 when none
RECURSIVE MarkerLoop(_, _)
MarkerLoop(output_str, k) ==
    IF k > Len(time_markers) THEN 0
    ELSE LET pos == Find(output_str, time_markers[k])
         IN  IF pos # 0 THEN pos + Len(time_markers[k])
             ELSE MarkerLoop(output_str, k + 1)

\* an extraction that takes the marker occurring earliest in the text
extract_response_time_earliest(output) ==
    LET output_str == ToLowercase(output)
        found      == {k \in 1..Len(time_markers) :
                           Find(output_str, time_markers[k]) # 0}
        first      == CHOOSE k \in found :
                          \A j \in found : Find(output_str, time_markers[k])
                                               <= Find(output_str, time_markers[j])
        time_pos   == IF found = {} THEN 0
                      ELSE Find(output_str, time_markers[first])
                               + Len(time_markers[first])
    IN  IF time_pos = 0 THEN None
        ELSE
        LET time_part == SubSeq(output_str, time_pos, Len(output_str))
        IN  IF ~\E i \in 1..Len(time_part) : IsNumChar(time_part[i]) THEN None
            ELSE
            LET num_start_idx == CHOOSE i \in 1..Len(time_part) :
                                     /\ IsNumChar(time_part[i])
                                     /\ \A j \in 1..(i - 1) :
                                            ~IsNumChar(time_part[j])
                num_str == TakeWhileNum(SubSeq(time_part, num_start_idx,
                                               Len(time_part)))
                time    == ParseF64(num_str)
            IN  IF time.ok /\ F64NonNegative(time)
                THEN Some([k \in {"neg", "int", "frac"} |-> time[k]])
                ELSE None

\* an extraction that keeps negative values
extract_response_time_unfiltered(output) ==
    LET output_str == ToLowercase(output)
        time_pos   == MarkerLoop(output_str, 1)
    IN  IF time_pos = 0 THEN None
        ELSE
        LET time_part == SubSeq(output_str, time_pos, Len(output_str))
        IN  IF ~\E i \in 1..Len(time_part) : IsNumChar(time_part[i]) THEN None
            ELSE
            LET num_start_idx == CHOOSE i \in 1..Len(time_part) :
                                     /\ IsNumChar(time_part[i])
                                     /\ \A j \in 1..(i - 1) :
                                            ~IsNumChar(time_part[j])
                num_str == TakeWhileNum(SubSeq(time_part, num_start_idx,
                                               Len(time_part)))
                time    == ParseF64(num_str)
            IN  IF time.ok
                THEN Some([k \in {"neg", "int", "frac"} |-> time[k]])
                ELSE None

extract_response_time(output) ==
    LET output_str == ToLowercase(output)
        time_pos   == MarkerLoop(output_str, 1)
    IN  IF time_pos = 0 THEN None
        ELSE
        LET time_part == SubSeq(output_str, time_pos, Len(output_str))
        IN  IF ~\E i \in 1..Len(time_part) : IsNumChar(time_part[i]) THEN None
            ELSE
            LET num_start_idx == CHOOSE i \in 1..Len(time_part) :
                                     /\ IsNumChar(time_part[i])
                                     /\ \A j \in 1..(i - 1) :
                                            ~IsNumChar(time_part[j])
                num_str == TakeWhileNum(SubSeq(time_part, num_start_idx,
                                               Len(time_part)))
                time    == ParseF64(num_str)
            IN  IF time.ok /\ F64NonNegative(time)
                THEN Some([k \in {"neg", "int", "frac"} |-> time[k]])
                ELSE None

success_keywords ==
    << <<"U+56DE", "U+590D">>, <<"U+6765", "U+81EA">>,
       <<"r", "e", "p", "l", "y", " ", "f", "r", "o", "m">>,
       <<"t", "t", "l", "=">>,
       <<"b", "y", "t", "e", "s", "=">>,
       <<"t", "i", "m", "e", "=">> >>

\* the verdict on one invocation that could be spawned: keywords in the
\* decoded output on Windows, the exit status elsewhere
is_success(out, windows) ==
    IF windows
    THEN \E k \in 1..Len(success_keywords) :
             Find(ToLowercase(out.stdout), success_keywords[k]) # 0
    ELSE out.status_success

PingResult_success(ip, response_time) ==
    [ip |-> ip, status |-> "success", response_time |-> response_time]

PingResult_failure(ip) ==
    [ip |-> ip, status |-> "failure", response_time |-> None]

PingResult_is_success(r) == r.status = "success"

----------------------------------------------------------------------------
(* ping.rs: ping_ip_async, one step at a time *)

NoResult == [pending |-> TRUE]

\* the state of one call: loop counter, the counts of invocations of the
\* utility and of backoff sleeps so far, and the value returned
ExecStart ==
    [pc |-> "loop", attempt |-> 1, invocations |-> 0, backoffs |-> 0,
     spawn_failed |-> FALSE, result |-> NoResult]

\* an iteration that gives up one attempt early
AttemptStepStopEarly(ex, ip, count, out, windows) ==
    IF ~out.spawned
    THEN [ex EXCEPT !.pc = "returned", !.invocations = @ + 1,
                    !.spawn_failed = TRUE, !.result = PingResult_failure(ip)]
    ELSE IF is_success(out, windows)
    THEN [ex EXCEPT !.pc = "returned", !.invocations = @ + 1,
                    !.result = PingResult_success(
                                   ip, extract_response_time(out.stdout))]
    ELSE IF ex.attempt + 1 < count
    THEN [ex EXCEPT !.pc = "sleep", !.invocations = @ + 1, !.backoffs = @ + 1]
    ELSE [ex EXCEPT !.pc = "returned", !.invocations = @ + 1,
                    !.result = PingResult_failure(ip)]

\* an iteration that treats a spawn error as one more failed attempt
AttemptStepRetrySpawnErr(ex, ip, count, out, windows) ==
    IF out.spawned /\ is_success(out, windows)
    THEN [ex EXCEPT !.pc = "returned", !.invocations = @ + 1,
                    !.result = PingResult_success(
                                   ip, extract_response_time(out.stdout))]
    ELSE IF ex.attempt < count
    THEN [ex EXCEPT !.pc = "sleep", !.invocations = @ + 1, !.backoffs = @ + 1,
                    !.spawn_failed = @ \/ ~out.spawned]
    ELSE [ex EXCEPT !.pc = "returned", !.invocations = @ + 1,
                    !.spawn_failed = @ \/ ~out.spawned,
                    !.result = PingResult_failure(ip)]

\* an iteration that sleeps after every failed attempt, the last included
AttemptStepTrailingBackoff(ex, ip, count, out, windows) ==
    IF ~out.spawned
    THEN [ex EXCEPT !.pc = "returned", !.invocations = @ + 1,
                    !.spawn_failed = TRUE, !.result = PingResult_failure(ip)]
    ELSE IF is_success(out, windows)
    THEN [ex EXCEPT !.pc = "returned", !.invocations = @ + 1,
                    !.result = PingResult_success(
                                   ip, extract_response_time(out.stdout))]
    ELSE [ex EXCEPT !.pc = "sleep", !.invocations = @ + 1, !.backoffs = @ + 1]

\* one iteration of the for loop: the utility is invoked and yields out
AttemptStep(ex, ip, count, out, windows) ==
    IF ~out.spawned
    THEN [ex EXCEPT !.pc = "returned", !.invocations = @ + 1,
                    !.spawn_failed = TRUE, !.result = PingResult_failure(ip)]
    ELSE IF is_success(out, windows)
    THEN [ex EXCEPT !.pc = "returned", !.invocations = @ + 1,
                    !.result = PingResult_success(
                                   ip, extract_response_time(out.stdout))]
    ELSE IF ex.attempt < count
    THEN [ex EXCEPT !.pc = "sleep", !.invocations = @ + 1, !.backoffs = @ + 1]
    ELSE [ex EXCEPT !.pc = "returned", !.invocations = @ + 1,
                    !.result = PingResult_failure(ip)]

\* the backoff sleep is over: next iteration
SleepStep(ex) == [ex EXCEPT !.pc = "loop", !.attempt = @ + 1]

\* the loop has no iteration left (only when count = 0)
ExhaustStep(ex, ip) ==
    [ex EXCEPT !.pc = "returned", !.result = PingResult_failure(ip)]

\* what is left of a call once its result has been moved into the results:
\* nothing but the line it logged on a spawn error
ResultMoved(ex) ==
    [ExecStart EXCEPT !.pc = "returned", !.attempt = 0,
                      !.spawn_failed = ex.spawn_failed]

\* what is left of a call whose task panicked: unwinding drops the future
\* and its locals; a call whose result was moved before stays as it was
Unwound(ex) ==
    IF ex = ResultMoved(ex) THEN ex
    ELSE [ExecStart EXCEPT !.pc = "unwound", !.attempt = 0,
                           !.spawn_failed = ex.spawn_failed]

-----------------------------------------------------------------------------
(* Inputs *)

Idle == [idle |-> TRUE]

NotReturned == [kind |-> "NotReturned"]

NotCalled == [kind |-> "NotCalled"]

\* the function called on fn_in and what it returned
Returned(fn, ret) == [kind |-> "Returned", fn |-> fn, ret |-> ret]

NoSummary == [printed |-> FALSE]

StillRunning == [exited |-> FALSE]

Exited(code) == [exited |-> TRUE, code |-> code]

Builds == [overflow_checks : BOOLEAN, windows : BOOLEAN]

\* what one invocation of the ping utility can produce
OutSpawnErr == [spawned |-> FALSE, status_success |-> FALSE, stdout |-> <<>>]

OutReply == [spawned |-> TRUE, status_success |-> TRUE, stdout |-> <<"t", "i", "m", "e", "=", "5", "m", "s">>]

OutLost == [spawned |-> TRUE, status_success |-> FALSE, stdout |-> <<"l", "o", "s", "t">>]

OutTtl == [spawned |-> TRUE, status_success |-> FALSE, stdout |-> <<"T", "T", "L", "=", "9">>]

Outputs == {OutSpawnErr, OutReply, OutLost, OutTtl}

\* replies with a negative latency token, with "-0" and without any latency
OutNegative == [spawned |-> TRUE, status_success |-> TRUE, stdout |-> <<"T", "T", "L", "=", "9", " ", "t", "i", "m", "e", "=", "-", "1", "m", "s">>]

OutMinusZero == [spawned |-> TRUE, status_success |-> TRUE, stdout |-> <<"t", "i", "m", "e", "=", "-", "0", "m", "s">>]

OutNoTime == [spawned |-> TRUE, status_success |-> TRUE, stdout |-> <<"T", "T", "L", "=", "9">>]

ProbeOutputs == Outputs \cup {OutNegative, OutMinusZero, OutNoTime}

MaxCount == 2

MaxConcurrency == 2

MaxPanics == 1

MaxScript == 3

MaxHostBits == 5

RunTargets ==
    { <<"1", ".", "1", ".", "1", ".", "1">>,
      <<"1", ".", "1", ".", "1", ".", "1", ",", " ", "1", ".", "1", ".", "1", ".", "1">>,
      <<"1", ".", "1", ".", "1", ".", "8", "/", "3", "0">>,
      <<"1", ".", "1", ".", "1", ".", "1", "-", "3">>,
      <<"1", ".", "1", ".", "1", ".", "1", ",", "1", ".", "1", ".", "1", ".", "2", "5", "6">>,
      <<"1", ".", "1", ".", "1", ".", "5", "-", "1", ",", "1", ".", "1", ".", "1", ".", "1">>,
      <<"0", ".", "0", ".", "0", ".", "0", "/", "3", "2", ",", "1", ".", "1", ".", "1", ".", "1">>,
      <<"2", "5", "5", ".", "2", "5", "5", ".", "2", "5", "5", ".", "2", "5", "5", "/", "3", "2">>,
      <<" ", ",">>,
      <<"1", ".", "1", ".", "1", ".", "1", ",", "x", "/", "3", "1">>,
      <<"0", ".", "0", ".", "0", ".", "0", "/", "3", "2", ",", "x">> }

AddrOctets ==
    { <<0, 0, 0, 0>>, <<255, 255, 255, 255>>, <<10, 0, 0, 1>>,
      <<192, 168, 1, 77>>, <<10, 0, 0, 255>>, <<172, 16, 5, 128>> }

CidrText(o, n) == Ipv4ToString(o) \o <<"/">> \o NatToStr(n)

MalformedCidrs ==
    { <<"1", ".", "2", ".", "3", "/", "3", "0">>,
      <<"1", ".", "2", ".", "3", ".", "4", "/">>,
      <<"1", ".", "2", ".", "3", ".", "4", "/", "3", "x">>,
      <<"1", ".", "2", ".", "3", ".", "4", "/", "3", "0", "/", "1">>,
      <<"1", ".", "2", ".", "3", ".", "4", "/", " ", "3", "0">>,
      <<"2", "5", "6", ".", "1", ".", "1", ".", "1", "/", "3", "0">> }

CidrInputs ==
    {CidrText(o, n) : o \in AddrOctets, n \in (32 - MaxHostBits)..33}
        \cup MalformedCidrs

\* range segments "A.B.C.D-E", with and without blanks around the dash
RangeBases == {<<10, 0, 0>>, <<192, 168, 1>>}

RangeStarts == {0, 1, 5, 250, 254, 255}

RangeEnds == {0, 1, 5, 9, 255, 256}

RangePads == {<<>>, <<" ">>}

\* the longest range expanded
MaxSpan == 10

RangeText(b, d, e, pad) ==
    Ipv4ToString(<<b[1], b[2], b[3], d>>) \o pad \o <<"-">> \o pad \o NatToStr(e)

MalformedRanges ==
    { <<"1", ".", "1", ".", "1", "-", "3">>,
      <<"1", ".", "1", ".", "1", ".", "1", "-">>,
      <<"1", ".", "1", ".", "1", ".", "1", "-", "x">>,
      <<"1", ".", "1", ".", "1", ".", "1", "-", "2", "-", "3">>,
      <<"-", "3">> }

RangeInputs ==
    {RangeText(b, pair[1], pair[2], pad) :
         b \in RangeBases, pad \in RangePads,
         pair \in {pr \in RangeStarts \X RangeEnds : pr[2] - pr[1] < MaxSpan}}
        \cup MalformedRanges

\* the segments target strings are joined from
SegSingle == <<"1", ".", "1", ".", "1", ".", "1">>

SegPadded == <<" ", "1", "0", ".", "0", ".", "0", ".", "7", " ">>

SegCidr == <<"1", ".", "1", ".", "1", ".", "8", "/", "3", "0">>

SegRange == <<"1", ".", "1", ".", "1", ".", "1", "-", "3">>

SegEmpty == <<>>

SegBlank == <<" ">>

SegDescending == <<"1", ".", "1", ".", "1", ".", "5", "-", "1">>

SegBadAddress == <<"1", ".", "1", ".", "1", ".", "2", "5", "6">>

SegHostRoute == <<"0", ".", "0", ".", "0", ".", "0", "/", "3", "2">>

Segments ==
    {SegSingle, SegPadded, SegCidr, SegRange, SegEmpty, SegBlank,
     SegDescending, SegBadAddress, SegHostRoute}

MaxSegments == 3

RECURSIVE JoinSegments(_)
JoinSegments(segs) ==
    IF Len(segs) = 1 THEN segs[1]
    ELSE segs[1] \o <<",">> \o JoinSegments(Tail(segs))

TargetInputs ==
    UNION {{JoinSegments(segs) : segs \in [1..n -> Segments]} : n \in 1..MaxSegments}

ParseInputs == RangeInputs \cup TargetInputs

\* lines of ping output: a lead, then two "word=number" fields.  rank is the
\* place of the word in the list of time markers, 0 for a word that is none
LatencyLeads == {<<>>, <<"b", "y", "t", "e", "s", "=", "3", "2", " ">>}

LatencyWords ==
    { [text |-> <<"t", "i", "m", "e", "=">>, rank |-> 1],
      [text |-> <<"T", "i", "m", "e", "=">>, rank |-> 1],
      [text |-> <<"U+65F6", "U+95F4", "=">>, rank |-> 2],
      [text |-> <<"l", "a", "t", "e", "n", "c", "y", "=">>, rank |-> 3],
      [text |-> <<"t", "t", "l", "=">>, rank |-> 0] }

\* number tokens with the value they stand for: sign, integer part, fraction
LatencyNumbers ==
    { [text |-> <<"1", "5">>, val |-> Some([neg |-> FALSE, int |-> 15, frac |-> <<>>])],
      [text |-> <<"1", ".", "2", "3">>, val |-> Some([neg |-> FALSE, int |-> 1, frac |-> <<"2", "3">>])],
      [text |-> <<"0">>, val |-> Some([neg |-> FALSE, int |-> 0, frac |-> <<>>])],
      [text |-> <<"7", ".">>, val |-> Some([neg |-> FALSE, int |-> 7, frac |-> <<>>])],
      [text |-> <<"-", "1">>, val |-> None],
      [text |-> <<"1", "-", "2">>, val |-> None] }

LatencyText(lead, w1, n1, w2, n2) ==
    lead \o w1.text \o n1.text \o <<"m", "s", " ">> \o w2.text \o n2.text \o <<" ", "m", "s">>

LatencyTexts ==
    {LatencyText(lead, w1, n1, w2, n2) :
         lead \in LatencyLeads, w1 \in LatencyWords, n1 \in LatencyNumbers,
         w2 \in LatencyWords, n2 \in LatencyNumbers}

\* the segments port strings are joined from
PortSegment ==
    [single        |-> <<"2", "2">>,
     range         |-> <<"8", "0", "-", "8", "2">>,
     https         |-> <<"4", "4", "3">>,
     padded        |-> <<" ", "8", "1", " ">>,
     plus          |-> <<"+", "2", "2">>,
     spaced_range  |-> <<"8", "1", " ", "-", " ", "8", "3">>,
     top           |-> <<"6", "5", "5", "3", "4", "-", "6", "5", "5", "3", "5">>,
     zero          |-> <<"0">>,
     empty         |-> <<>>,
     descending    |-> <<"8", "2", "-", "8", "0">>,
     too_big       |-> <<"6", "5", "5", "3", "6">>,
     word          |-> <<"h", "t", "t", "p">>,
     two_dashes    |-> <<"1", "-", "2", "-", "3">>]

PortSegments == {PortSegment[f] : f \in DOMAIN PortSegment}

PortInputs ==
    UNION {{JoinSegments(segs) : segs \in [1..n -> PortSegments]} :
               n \in 1..MaxSegments}

ProbeIp == <<"1", ".", "1", ".", "1", ".", "1">>

----------------------------------------------------------------------------
(* ping.rs: run and ping_concurrent_async *)

\* clone: the task holds results_clone, its reference to the collection
Unspawned ==
    [pc |-> "unspawned", ex |-> ExecStart, releases |-> 0, clone |-> FALSE]

\* a task that has been spawned and has neither finished nor panicked
Running(t) == t.pc \in {"probing", "lock", "push", "inc", "drop"}

Panicked == {i \in DOMAIN tasks : tasks[i].pc = "panicked"}

RunIdle ==
    /\ args = Idle
    /\ run_pc = "idle"
    /\ run_ret = NotReturned
    /\ ip_list = <<>>
    /\ next_ip = 1
    /\ permits = 0
    /\ tasks = <<>>
    /\ results = <<>>
    /\ lock = 0
    /\ ticks = 0
    /\ joined = 0
    /\ summary = NoSummary
    /\ exit_code = StillRunning

ProbeIdle ==
    probe = [ip |-> <<>>, count |-> 0, script |-> <<>>,
             ex |-> [ExecStart EXCEPT !.pc = "idle"]]

CidrIdle == cidr_in = <<>> /\ cidr_out = NotCalled

FnIdle == fn_in = <<>> /\ fn_out = NotCalled

\* run up to the call of ping_concurrent_async, and the set-up of the latter
RunParse ==
    /\ run_pc = "start"
    /\ LET r == parse_targets(args.target, build.overflow_checks)
       IN  CASE r.kind = "Panic" ->
                  /\ run_pc' = "panicked"
                  /\ UNCHANGED <<run_ret, ip_list, permits, tasks>>
             [] r.kind = "Err" ->
                  /\ run_pc' = "returned"
                  /\ run_ret' = r
                  /\ UNCHANGED <<ip_list, permits, tasks>>
             [] r.kind = "Ok" /\ Len(r.val) = 0 ->
                  /\ run_pc' = "returned"
                  /\ run_ret' = Err("EmptyTargetSet")
                  /\ UNCHANGED <<ip_list, permits, tasks>>
             [] OTHER ->
                  /\ run_pc' = "dispatch"
                  /\ ip_list' = r.val
                  /\ permits' = args.concurrency
                  /\ tasks' = [i \in 1..Len(r.val) |-> Unspawned]
                  /\ UNCHANGED run_ret
    /\ UNCHANGED <<build, args, next_ip, results, lock, ticks, joined, summary,
                   exit_code, probe, pureVars>>

\* a dispatcher that spawns without waiting for a permit
DispatchNoAcquire ==
    /\ run_pc = "dispatch"
    /\ next_ip <= Len(ip_list)
    /\ permits' = IF permits > 0 THEN permits - 1 ELSE 0
    /\ tasks' = [tasks EXCEPT ![next_ip].pc = "probing",
                              ![next_ip].clone = TRUE]
    /\ next_ip' = next_ip + 1
    /\ run_pc' = IF next_ip = Len(ip_list) THEN "join" ELSE "dispatch"
    /\ UNCHANGED <<build, args, run_ret, ip_list, results, lock, ticks, joined,
                   summary, exit_code, probe, pureVars>>

\* one iteration of the for loop over ips: a permit is acquired and the task
\* for the next address is spawned; after the last address, the join loop
Dispatch ==
    /\ run_pc = "dispatch"
    /\ next_ip <= Len(ip_list)
    /\ permits > 0
    /\ permits' = permits - 1
    /\ tasks' = [tasks EXCEPT ![next_ip].pc = "probing",
                              ![next_ip].clone = TRUE]
    /\ next_ip' = next_ip + 1
    /\ run_pc' = IF next_ip = Len(ip_list) THEN "join" ELSE "dispatch"
    /\ UNCHANGED <<build, args, run_ret, ip_list, results, lock, ticks, joined,
                   summary, exit_code, probe, pureVars>>

\* what a task does once ping_ip_async is in state ex: when the call has
\* returned its loop counter is gone, the task holds the result only
AfterProbe(t, ex) ==
    IF ex.pc = "returned"
    THEN [t EXCEPT !.pc = "lock",
                   !.ex = [ex EXCEPT !.attempt = 0, !.invocations = 0,
                                     !.backoffs = 0]]
    ELSE [t EXCEPT !.pc = "probing", !.ex = ex]

TaskUnchanged ==
    UNCHANGED <<build, args, run_pc, run_ret, ip_list, next_ip, joined,
                summary, exit_code, probe, pureVars>>

TaskAttempt(i) ==
    /\ tasks[i].pc = "probing"
    /\ tasks[i].ex.pc = "loop"
    /\ tasks[i].ex.attempt <= args.count
    /\ \E out \in Outputs :
           tasks' = [tasks EXCEPT ![i] =
                        AfterProbe(@, AttemptStep(@.ex, ip_list[i], args.count,
                                                  out, build.windows))]
    /\ UNCHANGED <<permits, results, lock, ticks>>
    /\ TaskUnchanged

TaskSleep(i) ==
    /\ tasks[i].pc = "probing"
    /\ tasks[i].ex.pc = "sleep"
    /\ tasks' = [tasks EXCEPT ![i] = AfterProbe(@, SleepStep(@.ex))]
    /\ UNCHANGED <<permits, results, lock, ticks>>
    /\ TaskUnchanged

TaskExhaust(i) ==
    /\ tasks[i].pc = "probing"
    /\ tasks[i].ex.pc = "loop"
    /\ tasks[i].ex.attempt > args.count
    /\ tasks' = [tasks EXCEPT ![i] = AfterProbe(@, ExhaustStep(@.ex, ip_list[i]))]
    /\ UNCHANGED <<permits, results, lock, ticks>>
    /\ TaskUnchanged

\* a task that gives its permit back before it takes the lock
TaskLockPermitFirst(i) ==
    /\ tasks[i].pc = "lock"
    /\ lock = 0
    /\ lock' = i
    /\ permits' = permits + 1
    /\ tasks' = [tasks EXCEPT ![i].pc = "push"]
    /\ UNCHANGED <<results, ticks>>
    /\ TaskUnchanged

\* a lock that is handed out while another task holds it
TaskLockNoWait(i) ==
    /\ tasks[i].pc = "lock"
    /\ lock' = i
    /\ tasks' = [tasks EXCEPT ![i].pc = "push"]
    /\ UNCHANGED <<permits, results, ticks>>
    /\ TaskUnchanged

\* let mut results_guard = results_clone.lock().await
TaskLock(i) ==
    /\ tasks[i].pc = "lock"
    /\ lock = 0
    /\ lock' = i
    /\ tasks' = [tasks EXCEPT ![i].pc = "push"]
    /\ UNCHANGED <<permits, results, ticks>>
    /\ TaskUnchanged

\* a push at the front of the collection
TaskPushFront(i) ==
    /\ tasks[i].pc = "push"
    /\ results' = <<tasks[i].ex.result>> \o results
    /\ lock' = 0
    /\ tasks' = [tasks EXCEPT ![i].pc = "inc", ![i].ex = ResultMoved(@)]
    /\ UNCHANGED <<permits, ticks>>
    /\ TaskUnchanged

\* a push that drops the outcome of a failed probe
TaskPushLossy(i) ==
    /\ tasks[i].pc = "push"
    /\ results' = IF PingResult_is_success(tasks[i].ex.result)
                  THEN Append(results, tasks[i].ex.result) ELSE results
    /\ lock' = 0
    /\ tasks' = [tasks EXCEPT ![i].pc = "inc", ![i].ex = ResultMoved(@)]
    /\ UNCHANGED <<permits, ticks>>
    /\ TaskUnchanged

\* results_guard.push(result), and the guard goes out of scope
TaskPush(i) ==
    /\ tasks[i].pc = "push"
    /\ results' = Append(results, tasks[i].ex.result)
    /\ lock' = 0
    /\ tasks' = [tasks EXCEPT ![i].pc = "inc", ![i].ex = ResultMoved(@)]
    /\ UNCHANGED <<permits, ticks>>
    /\ TaskUnchanged

\* progress_clone.inc(1)
TaskInc(i) ==
    /\ tasks[i].pc = "inc"
    /\ ticks' = ticks + 1
    /\ tasks' = [tasks EXCEPT ![i].pc = "drop"]
    /\ UNCHANGED <<permits, results, lock>>
    /\ TaskUnchanged

\* drop(permit), the last statement of the task: the task ends and what it
\* captured, results_clone included, is dropped before its handle resolves
TaskDrop(i) ==
    /\ tasks[i].pc = "drop"
    /\ permits' = permits + 1
    /\ tasks' = [tasks EXCEPT ![i].pc = "done", ![i].releases = @ + 1,
                              ![i].clone = FALSE]
    /\ UNCHANGED <<results, lock, ticks>>
    /\ TaskUnchanged

\* a panic that leaks the permit of the task
TaskPanicLeak(i) ==
    /\ Running(tasks[i])
    /\ Cardinality(Panicked) < MaxPanics
    /\ lock' = IF lock = i THEN 0 ELSE lock
    /\ tasks' = [tasks EXCEPT ![i].pc = "panicked", ![i].ex = Unwound(@),
                              ![i].clone = FALSE]
    /\ UNCHANGED <<permits, results, ticks>>
    /\ TaskUnchanged

\* a panic that leaves the task's reference to the collection behind
TaskPanicKeepsClone(i) ==
    /\ Running(tasks[i])
    /\ Cardinality(Panicked) < MaxPanics
    /\ permits' = permits + 1
    /\ lock' = IF lock = i THEN 0 ELSE lock
    /\ tasks' = [tasks EXCEPT ![i].pc = "panicked", ![i].ex = Unwound(@),
                              ![i].releases = @ + 1]
    /\ UNCHANGED <<results, ticks>>
    /\ TaskUnchanged

\* the task panics: unwinding drops what the task owns, the mutex guard if
\* it holds it, its permit and its reference to the collection
TaskPanic(i) ==
    /\ Running(tasks[i])
    /\ Cardinality(Panicked) < MaxPanics
    /\ permits' = permits + 1
    /\ lock' = IF lock = i THEN 0 ELSE lock
    /\ tasks' = [tasks EXCEPT ![i].pc = "panicked", ![i].ex = Unwound(@),
                              ![i].releases = @ + 1, ![i].clone = FALSE]
    /\ UNCHANGED <<results, ticks>>
    /\ TaskUnchanged

\* a join loop that returns the JoinError of a panicked task (handle.await?)
JoinAborting ==
    /\ run_pc = "join"
    /\ joined < Len(ip_list)
    /\ tasks[joined + 1].pc \in {"done", "panicked"}
    /\ joined' = joined + 1
    /\ IF tasks[joined + 1].pc = "panicked"
       THEN /\ run_pc' = "returned"
            /\ run_ret' = Err("JoinError")
       ELSE UNCHANGED <<run_pc, run_ret>>
    /\ UNCHANGED <<build, args, ip_list, next_ip, permits, tasks, results,
                   lock, ticks, summary, exit_code, probe, pureVars>>

\* one iteration of the for loop over handles: handle.await
Join ==
    /\ run_pc = "join"
    /\ joined < Len(ip_list)
    /\ tasks[joined + 1].pc \in {"done", "panicked"}
    /\ joined' = joined + 1
    /\ UNCHANGED <<build, args, run_pc, run_ret, ip_list, next_ip, permits,
                   tasks, results, lock, ticks, summary, exit_code, probe,
                   pureVars>>

\* Arc::strong_count(&results): the handle of ping_concurrent_async and the
\* clones the tasks hold
strong_count == 1 + Cardinality({i \in DOMAIN tasks : tasks[i].clone})

success_count == Cardinality({k \in 1..Len(results) :
                                  PingResult_is_success(results[k])})

\* ping_concurrent_async returns the results; run counts them, exports them
\* when args.output is set, and prints its summary.  args.output is read
\* here only, so its value is drawn here, with the outcome of the export.
RunReport ==
    /\ run_pc = "join"
    /\ joined = Len(ip_list)
    /\ IF strong_count # 1
       THEN \* Arc::try_unwrap(results).expect(..) panics
            /\ run_pc' = "panicked"
            /\ UNCHANGED <<run_ret, summary>>
       ELSE /\ run_pc' = "returned"
            /\ \E output \in BOOLEAN, export_ok \in BOOLEAN :
                   IF output /\ ~export_ok
                   THEN /\ run_ret' = Err("ExportFailed")
                        /\ UNCHANGED summary
                   ELSE /\ run_ret' = [kind |-> "Ok",
                                       total_ips |-> Len(ip_list),
                                       success_count |-> success_count,
                                       failure_count |->
                                           Len(ip_list) - success_count]
                        /\ summary' = [printed |-> TRUE,
                                       total_ips |-> Len(ip_list),
                                       success_count |-> success_count,
                                       failure_count |->
                                           Len(ip_list) - success_count]
    /\ UNCHANGED <<build, args, ip_list, next_ip, permits, tasks, results,
                   lock, ticks, joined, exit_code, probe, pureVars>>

\* main: exit(1) when run returned an error, a normal return otherwise; a
\* panic of run unwinds through main
MainExit ==
    /\ exit_code = StillRunning
    /\ run_pc \in {"returned", "panicked"}
    /\ exit_code' = IF run_pc = "panicked" THEN Exited(101)
                    ELSE IF run_ret.kind = "Err" THEN Exited(1)
                    ELSE Exited(0)
    /\ UNCHANGED <<build, args, run_pc, run_ret, ip_list, next_ip, permits,
                   tasks, results, lock, ticks, joined, summary, probe,
                   pureVars>>

\* The overflow checks of the build are read by parse_cidr only: a build
\* with them is drawn for the targets that have a CIDR segment.
Init ==
    /\ build \in Builds
    /\ args \in [target : RunTargets, count : 0..MaxCount,
                 concurrency : 0..MaxConcurrency]
    /\ build.overflow_checks => Contains(args.target, "/")
    /\ run_pc = "start"
    /\ run_ret = NotReturned
    /\ ip_list = <<>>
    /\ next_ip = 1
    /\ permits = 0
    /\ tasks = <<>>
    /\ results = <<>>
    /\ lock = 0
    /\ ticks = 0
    /\ joined = 0
    /\ summary = NoSummary
    /\ exit_code = StillRunning
    /\ ProbeIdle
    /\ CidrIdle
    /\ FnIdle

Next ==
    \/ RunParse
    \/ Dispatch
    \/ \E i \in DOMAIN tasks : TaskAttempt(i)
    \/ \E i \in DOMAIN tasks : TaskSleep(i)
    \/ \E i \in DOMAIN tasks : TaskExhaust(i)
    \/ \E i \in DOMAIN tasks : TaskLock(i)
    \/ \E i \in DOMAIN tasks : TaskPush(i)
    \/ \E i \in DOMAIN tasks : TaskInc(i)
    \/ \E i \in DOMAIN tasks : TaskDrop(i)
    \/ \E i \in DOMAIN tasks : TaskPanic(i)
    \/ Join
    \/ RunReport
    \/ MainExit

Spec == Init /\ [][Next]_vars

----------------------------------------------------------------------------
(* ping_ip_async on its own, against a script of invocation outcomes *)

ProbeAttempt ==
    /\ probe.ex.pc = "loop"
    /\ probe.ex.attempt <= probe.count
    /\ probe' = [probe EXCEPT !.ex =
                    AttemptStep(@, probe.ip, probe.count,
                                probe.script[probe.ex.attempt], build.windows)]
    /\ UNCHANGED <<build, runVars, pureVars>>

ProbeSleep ==
    /\ probe.ex.pc = "sleep"
    /\ probe' = [probe EXCEPT !.ex = SleepStep(@)]
    /\ UNCHANGED <<build, runVars, pureVars>>

ProbeExhaust ==
    /\ probe.ex.pc = "loop"
    /\ probe.ex.attempt > probe.count
    /\ probe' = [probe EXCEPT !.ex = ExhaustStep(@, probe.ip)]
    /\ UNCHANGED <<build, runVars, pureVars>>

InitProbe ==
    /\ build \in Builds
    /\ RunIdle
    /\ CidrIdle
    /\ FnIdle
    /\ probe \in [ip : {ProbeIp}, count : 0..MaxScript,
                  script : [1..MaxScript -> ProbeOutputs], ex : {ExecStart}]

NextProbe == ProbeAttempt \/ ProbeSleep \/ ProbeExhaust

SpecProbe == InitProbe /\ [][NextProbe]_vars

----------------------------------------------------------------------------
(* parse_cidr on its own *)

CallParseCidr ==
    /\ cidr_out = NotCalled
    /\ cidr_out' = parse_cidr(cidr_in, build.overflow_checks)
    /\ UNCHANGED <<build, runVars, probe, cidr_in, fn_in, fn_out>>

InitCidr ==
    /\ build \in Builds
    /\ RunIdle
    /\ ProbeIdle
    /\ FnIdle
    /\ cidr_in \in CidrInputs
    /\ cidr_out = NotCalled

NextCidr == CallParseCidr

SpecCidr == InitCidr /\ [][NextCidr]_vars

-----------------------------------------------------------------------------
(* parse_ip_range and parse_targets on their own *)

CallParseIpRange ==
    /\ fn_out = NotCalled
    /\ fn_out' = Returned("parse_ip_range", parse_ip_range(fn_in))
    /\ UNCHANGED <<build, runVars, probe, cidrVars, fn_in>>

CallParseTargets ==
    /\ fn_out = NotCalled
    /\ fn_out' = Returned("parse_targets",
                          parse_targets(fn_in, build.overflow_checks))
    /\ UNCHANGED <<build, runVars, probe, cidrVars, fn_in>>

InitParse ==
    /\ build \in Builds
    /\ RunIdle
    /\ ProbeIdle
    /\ CidrIdle
    /\ fn_in \in ParseInputs
    /\ fn_out = NotCalled

NextParse ==
    \/ CallParseIpRange
    \/ CallParseTargets

SpecParse == InitParse /\ [][NextParse]_vars

-----------------------------------------------------------------------------
(* extract_response_time on its own *)

CallExtractResponseTime ==
    /\ fn_out = NotCalled
    /\ fn_out' = Returned("extract_response_time", extract_response_time(fn_in))
    /\ UNCHANGED <<build, runVars, probe, cidrVars, fn_in>>

InitLatency ==
    /\ build \in Builds
    /\ RunIdle
    /\ ProbeIdle
    /\ CidrIdle
    /\ fn_in \in LatencyTexts
    /\ fn_out = NotCalled

NextLatency == CallExtractResponseTime

SpecLatency == InitLatency /\ [][NextLatency]_vars

----------------------------------------------------------------------------
(* parse_ports on its own *)

CallParsePorts ==
    /\ fn_out = NotCalled
    /\ fn_out' = Returned("parse_ports", parse_ports(fn_in))
    /\ UNCHANGED <<build, runVars, probe, cidrVars, fn_in>>

InitPorts ==
    /\ build \in Builds
    /\ RunIdle
    /\ ProbeIdle
    /\ CidrIdle
    /\ fn_in \in PortInputs
    /\ fn_out = NotCalled

NextPorts == CallParsePorts

SpecPorts == InitPorts /\ [][NextPorts]_vars

----------------------------------------------------------------------------
(* Properties *)

InFlight == {i \in DOMAIN tasks : Running(tasks[i])}

Min(a, b) == IF a < b THEN a ELSE b

Occurrences(seq, x) == Cardinality({k \in 1..Len(seq) : seq[k] = x})

\* C1: at every instant of a run of ping_concurrent_async the number of probe
\* tasks that have been started and have not yet completed is at most the
\* configured concurrency limit
C1_InFlightWithinLimit ==
    run_pc # "start" => Cardinality(InFlight) <= args.concurrency

\* the limit is reached while addresses are still waiting to be dispatched
C1_Witness ==
    /\ run_pc = "dispatch"
    /\ args.concurrency = 2
    /\ Cardinality(InFlight) = 2
    /\ next_ip <= Len(ip_list)

\* C2: a completed scan without catastrophic task failure returns exactly one
\* outcome per entry of the AddressList (a permutation of it, duplicates
\* included), so successCount + failureCount = len(AddressList), both counts
\* being those of the outcomes returned
C2_OneOutcomePerAddress ==
    (run_ret.kind = "Ok" /\ Panicked = {}) =>
        /\ Len(results) = Len(ip_list)
        /\ \A k \in 1..Len(ip_list) :
               Occurrences([j \in 1..Len(results) |-> results[j].ip], ip_list[k])
                   = Occurrences(ip_list, ip_list[k])
        /\ run_ret.success_count =
               Cardinality({j \in 1..Len(results) : results[j].status = "success"})
        /\ run_ret.failure_count =
               Cardinality({j \in 1..Len(results) : results[j].status = "failure"})
        /\ run_ret.success_count + run_ret.failure_count = Len(ip_list)

\* a completed scan of an address listed twice, one probe alive, one not
C2_Witness ==
    /\ run_ret.kind = "Ok"
    /\ Panicked = {}
    /\ Len(ip_list) = 2
    /\ ip_list[1] = ip_list[2]
    /\ run_ret.success_count = 1
    /\ run_ret.failure_count = 1

\* the position of the first successful attempt of a script of outcomes,
\* beyond the script when there is none
FirstSuccess(script, windows) ==
    IF \E j \in 1..Len(script) : script[j].spawned /\ is_success(script[j], windows)
    THEN CHOOSE j \in 1..Len(script) :
             /\ script[j].spawned /\ is_success(script[j], windows)
             /\ \A h \in 1..(j - 1) :
                    ~(script[h].spawned /\ is_success(script[h], windows))
    ELSE Len(script) + 1

\* C3: when every invocation can be spawned, ping_ip_async performs exactly
\* min(k, maxAttempts) invocations, k the position of the first successful
\* attempt, returns Success iff k <= maxAttempts, and makes no attempt after
\* a success
C3_AttemptsUntilFirstSuccess ==
    LET k == FirstSuccess(probe.script, build.windows)
        n == Min(k, probe.count)
    IN  (\A j \in 1..n : probe.script[j].spawned) =>
            /\ probe.ex.invocations <= n
            /\ probe.ex.pc = "returned" =>
                   /\ probe.ex.invocations = n
                   /\ PingResult_is_success(probe.ex.result) <=> k <= probe.count

\* [fail, fail, success] with three attempts allowed: three invocations, Success
C3_Witness ==
    /\ probe.count = 3
    /\ probe.script = <<OutLost, OutLost, OutReply>>
    /\ probe.ex.pc = "returned"
    /\ probe.ex.invocations = 3
    /\ PingResult_is_success(probe.ex.result)

\* C4: every run that starts probing eventually returns; no state is
\* reachable in which the dispatcher waits for a ticket that no task will
\* ever release, or for a task that will never finish
C4_DispatcherNeverStuck ==
    /\ ~(run_pc = "dispatch" /\ permits = 0 /\ InFlight = {})
    /\ ~(run_pc = "join" /\ joined < Len(ip_list)
            /\ tasks[joined + 1].pc = "unspawned")

\* C5: a probe starts only with a ticket acquired for it, the ticket is
\* released exactly once, when the task finishes (outcome appended and tick
\* emitted) or panics; the available tickets never exceed the limit and are
\* back at the limit when the run ends
C5_TicketDiscipline ==
    run_pc \notin {"start", "panicked"} /\ run_ret.kind # "Err" =>
        /\ permits + Cardinality(InFlight) = args.concurrency
        /\ permits <= args.concurrency
        /\ \A i \in DOMAIN tasks :
               /\ tasks[i].pc = "unspawned" => i >= next_ip
               /\ Running(tasks[i]) \/ tasks[i].pc = "unspawned"
                      => tasks[i].releases = 0
               /\ tasks[i].pc \in {"done", "panicked"} => tasks[i].releases = 1
        /\ Cardinality({i \in DOMAIN tasks : tasks[i].pc = "done"}) <= ticks
        /\ ticks <= Len(results)
        /\ run_pc = "returned" => permits = args.concurrency

\* a run has ended with one task finished and one panicked, every ticket back
C5_Witness ==
    /\ run_pc = "returned"
    /\ run_ret.kind = "Ok"
    /\ Panicked # {}
    /\ \E i \in DOMAIN tasks : tasks[i].pc = "done"
    /\ args.concurrency = 1
    /\ permits = 1

\* C6: after a spawn error on some attempt ping_ip_async has returned Failure
\* with no further invocation and no backoff, whatever attempts remain; the
\* error stays with that address: the run goes on and returns Ok
C6_SpawnErrorStopsAddressOnly ==
    /\ [](\A i \in DOMAIN tasks :
             tasks[i].ex.spawn_failed =>
                 /\ tasks[i].ex.pc \in {"returned", "unwound"}
                 /\ tasks[i].pc \in {"lock", "push"} =>
                        tasks[i].ex.result = PingResult_failure(ip_list[i])
                 /\ run_pc \in {"dispatch", "join", "returned"}
                 /\ run_ret.kind = "Err" => run_ret = Err("ExportFailed"))
    /\ [][\A i \in DOMAIN tasks :
             /\ tasks[i].ex.spawn_failed =>
                    /\ i \in DOMAIN tasks'
                    /\ tasks'[i].ex \in {tasks[i].ex, ResultMoved(tasks[i].ex),
                                          Unwound(tasks[i].ex)}
             /\ ~tasks[i].ex.spawn_failed /\ i \in DOMAIN tasks'
                 /\ tasks'[i].ex.spawn_failed =>
                    /\ tasks[i].ex.pc = "loop"
                    /\ tasks[i].ex.attempt \in 1..args.count
                    /\ tasks'[i].pc = "lock"
                    /\ tasks'[i].ex.result = PingResult_failure(ip_list[i])
                    /\ results' = results
                    /\ \A j \in DOMAIN tasks : j # i => tasks'[j] = tasks[j]]_vars

\* a run with a spawn error for one address and a live host at another has
\* returned Ok with both outcomes
C6_Witness ==
    /\ run_ret.kind = "Ok"
    /\ Panicked = {}
    /\ \E i \in DOMAIN tasks : tasks[i].ex.spawn_failed
    /\ run_ret.success_count >= 1
    /\ Len(results) = Len(ip_list)

\* attempt j of the script is a failed attempt that is followed by another
BackoffDue(script, count, windows, j) ==
    /\ j < count
    /\ \A h \in 1..j : script[h].spawned /\ ~is_success(script[h], windows)

\* C7: a backoff occurs exactly after each failed attempt that is not the
\* final one, before the next attempt: none after the final attempt, after a
\* success or after a spawn error; maxAttempts failures give maxAttempts - 1
\* backoffs
C7_BackoffOnlyBetweenAttempts ==
    LET due == {j \in 1..Len(probe.script) :
                    BackoffDue(probe.script, probe.count, build.windows, j)}
    IN  /\ probe.ex.backoffs <= Cardinality(due)
        /\ probe.ex.pc = "loop" => probe.ex.backoffs = probe.ex.attempt - 1
        /\ probe.ex.pc = "sleep" =>
               /\ probe.ex.attempt \in due
               /\ probe.ex.backoffs = probe.ex.attempt
        /\ probe.ex.pc = "returned" =>
               /\ probe.ex.backoffs = Cardinality(due)
               /\ probe.ex.invocations > 0 =>
                      probe.ex.backoffs = probe.ex.invocations - 1

\* three failures with three attempts allowed: two backoffs, then Failure
C7_Witness ==
    /\ probe.count = 3
    /\ probe.script = <<OutLost, OutLost, OutLost>>
    /\ probe.ex.pc = "returned"
    /\ probe.ex.backoffs = 2
    /\ ~PingResult_is_success(probe.ex.result)

\* a trimmed, non-empty segment that target expansion has to accept: a
\* dotted quad, a range whose end octet is not below the base's fourth
\* octet, or a CIDR block that has usable hosts
AcceptableSegment(seg) ==
    IF Contains(seg, "/")
    THEN LET parts == Split(seg, "/")
         IN  /\ Len(parts) = 2
             /\ Ipv4FromStr(parts[1]).ok
             /\ ParseU8(parts[2]).ok
             /\ ParseU8(parts[2]).val <= 30
    ELSE IF Contains(seg, "-")
    THEN LET dash == RFind(seg, "-")
             base == Ipv4FromStr(Trim(SubSeq(seg, 1, dash - 1)))
             last == ParseU8(Trim(SubSeq(seg, dash + 1, Len(seg))))
         IN  base.ok /\ last.ok /\ last.val >= base.octets[4]
    ELSE Ipv4FromStr(seg).ok

HasInvalidSegment(targets) ==
    \E k \in 1..Len(Split(targets, ",")) :
        LET seg == Trim(Split(targets, ",")[k])
        IN  seg # <<>> /\ ~AcceptableSegment(seg)

\* C8: if any non-empty segment of the target specification is invalid,
\* parse_targets returns an error and no address list, and run returns that
\* error before any probe task is dispatched or any utility invoked
C8_InvalidSegmentAbortsRun ==
    (run_pc # "start" /\ HasInvalidSegment(args.target)) =>
        /\ run_pc = "returned"
        /\ run_ret.kind = "Err"
        /\ ip_list = <<>>
        /\ tasks = <<>>

\* the usable hosts of the block of address o and prefix length n >= 24,
\* from the arithmetic of the last octet alone
ExpectedHosts(o, n) ==
    LET size == 2 ^ (32 - n)
        net  == o[4] - (o[4] % size)
    IN  [i \in 1..(size - 2) |-> Ipv4ToString(<<o[1], o[2], o[3], net + i>>)]

\* C9: for a valid CIDR block A.B.C.D/N with N <= 30, whatever its host
\* bits, parse_cidr returns exactly the 2^(32-N) - 2 addresses strictly
\* between network and broadcast address, in ascending order
C9_CidrUsableHosts ==
    \A o \in AddrOctets, n \in (32 - MaxHostBits)..30 :
        (cidr_in = CidrText(o, n) /\ cidr_out # NotCalled) =>
            /\ cidr_out = Ok(ExpectedHosts(o, n))
            /\ Len(cidr_out.val) = 2 ^ (32 - n) - 2
            /\ \A i \in 1..Len(cidr_out.val) :
                   /\ cidr_out.val[i] #
                          Ipv4ToString(<<o[1], o[2], o[3],
                                         o[4] - (o[4] % 2 ^ (32 - n))>>)
                   /\ cidr_out.val[i] #
                          Ipv4ToString(<<o[1], o[2], o[3],
                                         o[4] - (o[4] % 2 ^ (32 - n))
                                             + 2 ^ (32 - n) - 1>>)

\* 192.168.1.77/28 has been expanded to its fourteen hosts .65 to .78
C9_Witness ==
    /\ cidr_in = CidrText(<<192, 168, 1, 77>>, 28)
    /\ cidr_out.kind = "Ok"
    /\ Len(cidr_out.val) = 14
    /\ cidr_out.val[1] = Ipv4ToString(<<192, 168, 1, 65>>)
    /\ cidr_out.val[14] = Ipv4ToString(<<192, 168, 1, 78>>)

\* C10: for every address, 0.0.0.0 and 255.255.255.255 included, a prefix
\* length of 31 or 32 makes parse_cidr return the NoUsableHosts error: no
\* list, empty or not, and no overflow or underflow of its arithmetic
C10_NoUsableHostsError ==
    \A o \in AddrOctets, n \in {31, 32} :
        (cidr_in = CidrText(o, n) /\ cidr_out # NotCalled) =>
            cidr_out = Err("NoUsableHosts")

\* the tasks whose outcome has been moved into the result collection
Appended == {i \in DOMAIN tasks : tasks[i].ex = ResultMoved(tasks[i].ex)}

Finished == {i \in DOMAIN tasks : tasks[i].pc = "done"}

\* the addresses of the results are those of the tasks in the set, with
\* their multiplicities
ResultsAreOutcomesOf(set) ==
    /\ Len(results) = Cardinality(set)
    /\ \A k \in 1..Len(ip_list) :
           Occurrences([j \in 1..Len(results) |-> results[j].ip], ip_list[k])
               = Cardinality({i \in set : ip_list[i] = ip_list[k]})

\* C11 as stated: ping_concurrent_async returns only after every dispatched
\* task has completed or failed, a failed task does not abort the run, and
\* the returned collection lacks exactly the outcomes of the failed tasks
C11_LacksExactlyFailedTasks ==
    run_pc = "returned" /\ ip_list # <<>> =>
        /\ \A i \in DOMAIN tasks : tasks[i].pc \in {"done", "panicked"}
        /\ run_ret.kind = "Err" => run_ret = Err("ExportFailed")
        /\ ResultsAreOutcomesOf(Finished)

\* C11 as amended: ping_concurrent_async returns only after every dispatched
\* task has completed or failed, a failed task does not abort the run, and
\* the returned collection holds the outcome of every completed task and
\* lacks exactly the outcomes of the tasks that failed before appending theirs
C11_LacksOutcomesNotAppended ==
    run_pc = "returned" /\ ip_list # <<>> =>
        /\ \A i \in DOMAIN tasks : tasks[i].pc \in {"done", "panicked"}
        /\ run_ret.kind = "Err" => run_ret = Err("ExportFailed")
        /\ Finished \subseteq Appended
        /\ ResultsAreOutcomesOf(Appended)

\* a run has returned Ok although one of its three tasks panicked before it
\* appended: two outcomes are returned
C11_Witness ==
    /\ run_pc = "returned"
    /\ run_ret.kind = "Ok"
    /\ Len(ip_list) = 3
    /\ \E i \in Panicked : i \notin Appended
    /\ Cardinality(Finished) = 2
    /\ Len(results) = 2

\* C12: per-address failures never propagate: when target parsing succeeds
\* and no export error occurs run returns Ok whatever the probes did, and
\* the process exits non-zero exactly when run returns an error
C12_NonZeroExitIffRunError ==
    /\ run_pc = "returned" /\ ip_list # <<>> /\ run_ret # Err("ExportFailed")
           => run_ret.kind = "Ok"
    /\ exit_code.exited =>
           ((exit_code.code # 0) <=> run_ret.kind = "Err")

\* C13: in every run that reaches probing the maximum attempts per address
\* and the concurrency ceiling are both at least 1
C13_ConfigAtLeastOne ==
    run_pc \in {"dispatch", "join", "returned"} /\ ip_list # <<>> =>
        /\ args.count >= 1
        /\ args.concurrency >= 1

\* C14: when export is requested and fails, run returns the export error
\* only after every probe has completed, and the summary of the run (total,
\* success count, failure count) is still delivered to the operator
C14_ExportErrorKeepsSummary ==
    run_ret = Err("ExportFailed") =>
        /\ \A i \in DOMAIN tasks : tasks[i].pc \in {"done", "panicked"}
        /\ summary.printed
        /\ summary.total_ips = Len(ip_list)
        /\ summary.success_count = success_count
        /\ summary.failure_count = Len(ip_list) - success_count

\* the tasks that hold the guard of the result collection
Holders == {i \in DOMAIN tasks : tasks[i].pc = "push"}

\* the tasks that have emitted their progress tick and not panicked since
Ticked == {i \in DOMAIN tasks : tasks[i].pc \in {"drop", "done"}}

\* C17: the result collection is mutated by at most one task at a time, each
\* task that completes appends exactly one outcome and then emits exactly one
\* tick: the ticks never exceed the outcomes appended, and at the end of a
\* run without a panicked task both equal the number of addresses
C17_OneWriterAppendThenTick ==
    /\ [](/\ Cardinality(Holders) <= 1
          /\ \A i \in DOMAIN tasks : (lock = i) <=> (i \in Holders)
          /\ Len(results) = Cardinality(Appended)
          /\ Cardinality(Ticked) <= ticks
          /\ ticks <= Len(results)
          /\ Ticked \subseteq Appended
          /\ (run_pc = "returned" /\ Panicked = {}
                 => ticks = Len(ip_list) /\ Len(results) = Len(ip_list)))
    /\ [][/\ results' # results =>
                 \E i \in Holders :
                     /\ results' = Append(results, tasks[i].ex.result)
                     /\ i \in Appended'
                     /\ i \notin Appended
                     /\ ticks' = ticks
          /\ ticks' # ticks =>
                 \E i \in Appended :
                     /\ tasks[i].pc = "inc"
                     /\ i \in Ticked'
                     /\ ticks' = ticks + 1
                     /\ results' = results]_vars

\* one task holds the guard while another waits for it, and a third outcome
\* is already appended and ticked
C17_Witness ==
    /\ Cardinality(Holders) = 1
    /\ \E i \in DOMAIN tasks : tasks[i].pc = "lock"
    /\ Len(results) = 1
    /\ ticks = 1

\* the addresses A.B.C.D, A.B.C.(D+1), ..., A.B.C.E
ExpectedRange(b, d, e) ==
    [k \in 1..(e - d + 1) |-> Ipv4ToString(<<b[1], b[2], b[3], d + k - 1>>)]

\* C15: for a range segment "A.B.C.D-E" with a valid base address and
\* D <= E <= 255, parse_ip_range returns exactly the E - D + 1 addresses
\* A.B.C.D .. A.B.C.E in ascending order, the first three octets unchanged,
\* E = 255 and E = D included
C15_RangeExpansion ==
    fn_out.kind = "Returned" /\ fn_out.fn = "parse_ip_range" =>
        \A b \in RangeBases, d \in RangeStarts, e \in RangeEnds,
           pad \in RangePads :
            fn_in = RangeText(b, d, e, pad) /\ d <= e /\ e <= 255 =>
                /\ fn_out.ret = Ok(ExpectedRange(b, d, e))
                /\ Len(fn_out.ret.val) = e - d + 1

\* parse_ip_range has expanded 10.0.0.250-255 into its six addresses
C15_Witness ==
    /\ fn_in = RangeText(<<10, 0, 0>>, 250, 255, <<>>)
    /\ fn_out.kind = "Returned"
    /\ fn_out.fn = "parse_ip_range"
    /\ fn_out.ret.kind = "Ok"
    /\ Len(fn_out.ret.val) = 6
    /\ fn_out.ret.val[6] = Ipv4ToString(<<10, 0, 0, 255>>)

\* what each valid segment stands for
SegmentExpansion(seg) ==
    CASE seg = SegSingle -> <<Ipv4ToString(<<1, 1, 1, 1>>)>>
      [] seg = SegPadded -> <<Ipv4ToString(<<10, 0, 0, 7>>)>>
      [] seg = SegCidr   -> <<Ipv4ToString(<<1, 1, 1, 9>>),
                              Ipv4ToString(<<1, 1, 1, 10>>)>>
      [] seg = SegRange  -> <<Ipv4ToString(<<1, 1, 1, 1>>),
                              Ipv4ToString(<<1, 1, 1, 2>>),
                              Ipv4ToString(<<1, 1, 1, 3>>)>>
      [] seg = SegEmpty  -> <<>>
      [] seg = SegBlank  -> <<>>

ValidSegments == {SegSingle, SegPadded, SegCidr, SegRange, SegEmpty, SegBlank}

\* the text begins with the segment and a comma
StartsWithSegment(text, seg) ==
    /\ Len(text) > Len(seg)
    /\ SubSeq(text, 1, Len(seg)) = seg
    /\ text[Len(seg) + 1] = ","

\* the segment tuples a target string can have been joined from
RECURSIVE SegmentTuples(_)
SegmentTuples(text) ==
    {<<seg>> : seg \in {sg \in Segments : sg = text}}
        \cup UNION {{<<seg>> \o rest :
                        rest \in SegmentTuples(SubSeq(text, Len(seg) + 2,
                                                       Len(text)))} :
                       seg \in {sg \in Segments : StartsWithSegment(text, sg)}}

RECURSIVE Concatenation(_)
Concatenation(seqs) ==
    IF seqs = <<>> THEN <<>> ELSE Head(seqs) \o Concatenation(Tail(seqs))

RECURSIVE SumOfLengths(_)
SumOfLengths(seqs) ==
    IF seqs = <<>> THEN 0 ELSE Len(Head(seqs)) + SumOfLengths(Tail(seqs))

\* C16: for a comma-joined specification whose segments are all valid,
\* parse_targets returns the concatenation of the expansions of its trimmed,
\* non-empty segments in segment order: empty segments contribute nothing,
\* repeated addresses are kept, the length is the sum of the lengths
C16_TargetsConcatenation ==
    fn_out.kind = "Returned" /\ fn_out.fn = "parse_targets" =>
        \A segs \in SegmentTuples(fn_in) :
            LET expansions == [k \in 1..Len(segs) |-> SegmentExpansion(segs[k])]
            IN  (\A k \in 1..Len(segs) : segs[k] \in ValidSegments)
                /\ Concatenation(expansions) # <<>> =>
                    /\ fn_out.ret = Ok(Concatenation(expansions))
                    /\ Len(fn_out.ret.val) = SumOfLengths(expansions)

\* parse_targets has expanded "1.1.1.1-3, ,1.1.1.1": four addresses, the
\* first and the last the same
C16_Witness ==
    /\ fn_in = JoinSegments(<<SegRange, SegBlank, SegSingle>>)
    /\ fn_out.kind = "Returned"
    /\ fn_out.fn = "parse_targets"
    /\ fn_out.ret.kind = "Ok"
    /\ Len(fn_out.ret.val) = 4
    /\ fn_out.ret.val[1] = fn_out.ret.val[4]

\* the first segment of the tuple that is not valid is the descending range
FirstInvalidIsDescending(segs) ==
    \E k \in 1..Len(segs) :
        /\ segs[k] = SegDescending
        /\ \A j \in 1..(k - 1) : segs[j] \in ValidSegments

\* C18: a range segment whose end octet is smaller than the fourth octet of
\* its base address makes parse_ip_range, and so parse_targets, fail with
\* the InvalidRange error; no addresses are produced for it
C18_DescendingRangeRejected ==
    /\ fn_out.kind = "Returned" =>
           \A b \in RangeBases, d \in RangeStarts, e \in RangeEnds,
              pad \in RangePads :
               fn_in = RangeText(b, d, e, pad) /\ e < d =>
                   fn_out.ret = Err("InvalidRange")
    /\ fn_out.kind = "Returned" /\ fn_out.fn = "parse_targets" =>
           \A segs \in SegmentTuples(fn_in) :
               FirstInvalidIsDescending(segs) => fn_out.ret = Err("InvalidRange")

\* parse_targets has rejected "1.1.1.1,1.1.1.5-1" for its second segment
C18_Witness ==
    /\ fn_in = JoinSegments(<<SegSingle, SegDescending>>)
    /\ fn_out.kind = "Returned"
    /\ fn_out.fn = "parse_targets"
    /\ fn_out.ret = Err("InvalidRange")

\* C19: parse_targets never returns Ok with an empty address list: when the
\* segments expand to no address at all (empty string, only commas and
\* blanks) it fails with the EmptyTargetSet error, so no run starts probing
\* with an empty address list
C19_NeverOkEmpty ==
    /\ fn_out.kind = "Returned" /\ fn_out.fn = "parse_targets" =>
           /\ fn_out.ret.kind = "Ok" => fn_out.ret.val # <<>>
           /\ \A segs \in SegmentTuples(fn_in) :
                  (\A k \in 1..Len(segs) : segs[k] \in {SegEmpty, SegBlank})
                      => fn_out.ret = Err("EmptyTargetSet")
    /\ run_pc \in {"dispatch", "join", "returned"} /\ run_ret.kind # "Err"
           => ip_list # <<>>

\* parse_targets has rejected ", ," which holds no address
C19_Witness ==
    /\ fn_in = JoinSegments(<<SegEmpty, SegBlank, SegEmpty>>)
    /\ fn_out.kind = "Returned"
    /\ fn_out.fn = "parse_targets"
    /\ fn_out.ret = Err("EmptyTargetSet")

\* Success with no latency or a latency that is not below zero, or Failure
\* with no latency
WellFormedOutcome(r) ==
    /\ r.status \in {"success", "failure"}
    /\ r.status = "success" /\ r.response_time.some =>
           ~(r.response_time.val.neg
             /\ (r.response_time.val.int > 0 \/ r.response_time.val.frac # <<>>))
    /\ r.status = "failure" => r.response_time = None

\* C20: every outcome is Success with an optional latency that is >= 0 when
\* present, or Failure with no latency, and carries the address of the probe
\* that produced it; a negative latency token yields Success with no latency
C20_OutcomeWellFormed ==
    /\ probe.ex.pc = "returned" =>
           /\ WellFormedOutcome(probe.ex.result)
           /\ probe.ex.result.ip = probe.ip
           /\ (probe.ex.result.status = "success"
               /\ probe.script[probe.ex.attempt] = OutNegative)
                  => probe.ex.result.response_time = None
    /\ \A j \in 1..Len(results) :
           /\ WellFormedOutcome(results[j])
           /\ \E i \in 1..Len(ip_list) : results[j].ip = ip_list[i]

\* a reply with the token -1 after a lost first attempt: Success, no latency
C20_Witness ==
    /\ probe.ex.pc = "returned"
    /\ probe.ex.attempt = 2
    /\ probe.script[1] = OutLost
    /\ probe.script[2] = OutNegative
    /\ probe.ex.result = PingResult_success(probe.ip, None)

\* C21: the result list is in the order in which the outcomes were appended,
\* with no re-sort: every outcome stays at the position it was appended at,
\* the list only grows at its end, and the return leaves it as it is
C21_AppendOrderKept ==
    [][/\ Len(results') \in {Len(results), Len(results) + 1}
       /\ SubSeq(results', 1, Len(results)) = results
       /\ run_pc' = "returned" => results' = results]_vars

\* a run with a concurrency limit of 2 and no panicked task has returned its
\* outcomes in an order that is not that of the address list
C21_Witness ==
    /\ run_pc = "returned"
    /\ run_ret.kind = "Ok"
    /\ args.concurrency >= 2
    /\ Len(ip_list) >= 2
    /\ Panicked = {}
    /\ Len(results) = Len(ip_list)
    /\ \E j \in 1..Len(results) : results[j].ip # ip_list[j]

\* C22: with a concurrency limit of 1 and no panicked task the result list
\* is in the order of the address list in every interleaving: at any moment
\* it holds the outcomes of the first addresses, one each, in their order
C22_SequentialKeepsAddressOrder ==
    run_pc \in {"dispatch", "join", "returned"} /\ args.concurrency = 1
    /\ Panicked = {} =>
        /\ Len(results) <= Len(ip_list)
        /\ \A j \in 1..Len(results) : results[j].ip = ip_list[j]
        /\ Appended = 1..Len(results)
        /\ run_pc = "returned" /\ ip_list # <<>> => Len(results) = Len(ip_list)

\* a run over three addresses with a concurrency limit of 1 and no panicked
\* task has returned its three outcomes
C22_Witness ==
    /\ run_pc = "returned"
    /\ run_ret.kind = "Ok"
    /\ args.concurrency = 1
    /\ Panicked = {}
    /\ Len(ip_list) = 3
    /\ Len(results) = 3
    /\ results[1].ip # results[3].ip

\* C23: when ping_concurrent_async takes the collection out of its shared
\* handle no task holds a reference to it, in every interleaving and also
\* when tasks panic: a task whose handle has resolved has dropped its clone,
\* and the expect on Arc::try_unwrap never fails
C23_UnwrapNeverFails ==
    /\ run_pc \in {"dispatch", "join", "returned"} =>
           /\ \A i \in DOMAIN tasks :
                  /\ i <= joined => ~tasks[i].clone
                  /\ tasks[i].clone <=> Running(tasks[i])
           /\ joined = Len(ip_list) => strong_count = 1
    /\ run_pc = "panicked" => ip_list = <<>> /\ tasks = <<>>

\* the collection has been taken out of its handle after one of the three
\* tasks panicked and another finished
C23_Witness ==
    /\ run_pc = "returned"
    /\ Len(ip_list) = 3
    /\ Cardinality(Panicked) >= 1
    /\ Cardinality(Finished) >= 1
    /\ joined = 3
    /\ strong_count = 1

\* the field whose number is taken when the marker occurring earliest in the
\* text decides: the first field unless its word is no marker
EarliestField(w1, n1, w2, n2) ==
    IF w1.rank # 0 THEN n1 ELSE n2

\* the field whose number is taken when the order of the marker list decides
ListOrderField(w1, n1, w2, n2) ==
    IF w1.rank # 0 /\ (w2.rank = 0 \/ w1.rank <= w2.rank) THEN n1 ELSE n2

\* C24 as stated: no latency when the text has none of the markers; otherwise
\* the marker occurring earliest in the text is taken, and the maximal run
\* of digits, '.' and '-' after it is parsed
C24_EarliestMarkerTaken ==
    fn_out.kind = "Returned" /\ fn_out.fn = "extract_response_time" =>
        \A lead \in LatencyLeads, w1 \in LatencyWords, n1 \in LatencyNumbers,
           w2 \in LatencyWords, n2 \in LatencyNumbers :
            fn_in = LatencyText(lead, w1, n1, w2, n2) =>
                fn_out.ret = IF w1.rank = 0 /\ w2.rank = 0 THEN None
                             ELSE EarliestField(w1, n1, w2, n2).val

\* C24 as amended: no latency when the text has none of the markers;
\* otherwise the first marker of the list time=, U+65F6 U+95F4=, latency=
\* that the text contains is taken, at its first occurrence, and the
\* maximal run of digits, '.' and '-' after it is parsed
C24_ListOrderMarkerTaken ==
    fn_out.kind = "Returned" /\ fn_out.fn = "extract_response_time" =>
        \A lead \in LatencyLeads, w1 \in LatencyWords, n1 \in LatencyNumbers,
           w2 \in LatencyWords, n2 \in LatencyNumbers :
            fn_in = LatencyText(lead, w1, n1, w2, n2) =>
                fn_out.ret = IF w1.rank = 0 /\ w2.rank = 0 THEN None
                             ELSE ListOrderField(w1, n1, w2, n2).val

\* "latency=15ms time=1.23 ms" has given 1.23, the number after time=
C24_Witness ==
    /\ \E w1, w2 \in LatencyWords, n1, n2 \in LatencyNumbers :
           /\ w1.rank = 3
           /\ w2.rank = 1
           /\ n1.val = Some([neg |-> FALSE, int |-> 15, frac |-> <<>>])
           /\ n2.val = Some([neg |-> FALSE, int |-> 1, frac |-> <<"2", "3">>])
           /\ fn_in = LatencyText(<<>>, w1, n1, w2, n2)
    /\ fn_out.kind = "Returned"
    /\ fn_out.fn = "extract_response_time"
    /\ fn_out.ret = Some([neg |-> FALSE, int |-> 1, frac |-> <<"2", "3">>])

\* the ports each segment names; none for a segment that is not valid
PortsNamed(seg) ==
    CASE seg = PortSegment.single       -> {22}
      [] seg = PortSegment.range        -> {80, 81, 82}
      [] seg = PortSegment.https        -> {443}
      [] seg = PortSegment.padded       -> {81}
      [] seg = PortSegment.plus         -> {22}
      [] seg = PortSegment.spaced_range -> {81, 82, 83}
      [] seg = PortSegment.top          -> {65534, 65535}
      [] seg = PortSegment.zero         -> {0}
      [] OTHER                          -> {}

\* the segment tuples a port string can have been joined from
RECURSIVE PortTuples(_)
PortTuples(text) ==
    {<<seg>> : seg \in {sg \in PortSegments : sg = text}}
        \cup UNION {{<<seg>> \o rest :
                        rest \in PortTuples(SubSeq(text, Len(seg) + 2,
                                                   Len(text)))} :
                       seg \in {sg \in PortSegments :
                                    StartsWithSegment(text, sg)}}

\* C25: for every input string parse_ports returns a strictly ascending list
\* without duplicates that holds exactly the ports named by its valid
\* segments; segments that are not valid are skipped and cause no error
C25_PortsAscendingExact ==
    fn_out.kind = "Returned" /\ fn_out.fn = "parse_ports" =>
        /\ \A k \in 1..(Len(fn_out.ret) - 1) : fn_out.ret[k] < fn_out.ret[k + 1]
        /\ \A segs \in PortTuples(fn_in) :
               {fn_out.ret[k] : k \in 1..Len(fn_out.ret)}
                   = UNION {PortsNamed(segs[k]) : k \in 1..Len(segs)}

\* "22,80-82,443" has given 22, 80, 81, 82, 443
C25_Witness ==
    /\ fn_in = JoinSegments(<<PortSegment.single, PortSegment.range,
                               PortSegment.https>>)
    /\ fn_out.kind = "Returned"
    /\ fn_out.fn = "parse_ports"
    /\ fn_out.ret = <<22, 80, 81, 82, 443>>

====
